---- MODULE Spec2Model ----
(***************************************************************************)
(* Githubifier: the safety-checked archival pipeline of githubifier.py.    *)
(*                                                                         *)
(* One process runs githubify_safe once, called from run_custom_task.      *)
(* The environment (the file system, the external compressor, git, the     *)
(* terminal, the user's Ctrl+C) is nondeterministic.                       *)
(*                                                                         *)
(* File names are sequences of one-character strings, so that the glob     *)
(* pattern of cleanup_partial_files is matched character by character,     *)
(* as pathlib does.                                                        *)
(***************************************************************************)
EXTENDS Integers, Sequences, FiniteSets, TLC

(* ------------------------------ bounds -------------------------------- *)

\* Path components of the destination that may be missing before the run.
MaxMissing == 1
\* Largest non-zero exit code the external compressor returns in the model.
MaxExit == 2
\* Largest free space (in bytes) shutil.disk_usage reports in the model.
MaxFree == 2
\* Nodes below the measured directory in the source tree.
MaxNodes == 3
\* Largest size of one file of the source tree.
MaxFileSize == 2

(* ---------------------------- file names ------------------------------ *)

\* The names a source directory has in the model: a plain one, and one that
\* holds the glob metacharacters "[" and "]" (legal in a directory name).
SourceNames == { <<"a">>, <<"[", "a", "]">> }

\* archive_name = f"{source.name}.7z"
ArchiveName(n) == n \o <<".", "7", "z">>

\* f"{archive_name}.001", the first split volume
Vol001(n) == ArchiveName(n) \o <<".", "0", "0", "1">>

Vol002(n) == ArchiveName(n) \o <<".", "0", "0", "2">>

\* dest_dir / ".git"
GitDir == <<".", "g", "i", "t">>

\* What the external compressor can leave in the destination for the archive
\* base name: the unsplit file and the split volumes.
ArchiveOutputs(n) == { ArchiveName(n), Vol001(n), Vol002(n) }

\* The names the destination directory holds in the model.
Universe(n) == ArchiveOutputs(n) \cup { GitDir }

\* s starts with p
HasPrefix(s, p) == Len(s) >= Len(p) /\ SubSeq(s, 1, Len(p)) = p

\* The files the specification calls "<name>.7z.*": the archive name, a dot,
\* and anything after it, read literally.
IsVolumeOf(f, n) == HasPrefix(f, ArchiveName(n) \o <<".">>)

(* ------------------------- glob (Path.glob) --------------------------- *)

\* Index of the "]" that closes the character class opened at p[1] = "[":
\* the first "]" at position 3 or later; 0 when the class is never closed.
RECURSIVE ClassEnd(_, _)
ClassEnd(p, i) ==
    IF i > Len(p) THEN 0
    ELSE IF p[i] = "]" THEN i
    ELSE ClassEnd(p, i + 1)

\* fnmatch of the whole name s against pattern p: "*" any run of characters,
\* "?" one character, "[...]" one character of the class ("[!...]" one not in
\* it), an unclosed "[" and everything else literal.
RECURSIVE GlobMatch(_, _)
GlobMatch(p, s) ==
    IF p = <<>> THEN s = <<>>
    ELSE IF p[1] = "*" THEN
        \/ GlobMatch(Tail(p), s)
        \/ s # <<>> /\ GlobMatch(p, Tail(s))
    ELSE IF p[1] = "?" THEN
        s # <<>> /\ GlobMatch(Tail(p), Tail(s))
    ELSE IF p[1] = "[" /\ ClassEnd(p, 3) # 0 THEN
        LET j == ClassEnd(p, 3)
            neg == p[2] = "!"
            members == { p[k] : k \in (IF neg THEN 3 ELSE 2) .. (j - 1) }
        IN  /\ s # <<>>
            /\ (s[1] \in members) # neg
            /\ GlobMatch(SubSeq(p, j + 1, Len(p)), Tail(s))
    ELSE
        s # <<>> /\ s[1] = p[1] /\ GlobMatch(Tail(p), Tail(s))

\* pattern = f"{archive_name_base}.*"; dest_dir.glob(pattern)
GlobAll(files, base) == { f \in files : GlobMatch(base \o <<".", "*">>, f) }

(* ------------------- source tree and get_dir_size --------------------- *)

\* A file tree is a function from node ids to entries; node 0 is the path
\* handed to get_dir_size, and a tree without node 0 is a path that does not
\* exist.  kind "other" is an entry that is neither a regular file nor a
\* directory (a socket, a fifo, a broken link).
Nodes == 0 .. MaxNodes

Dir(parent, readable) ==
    [parent |-> parent, kind |-> "dir", size |-> 0, readable |-> readable]

File(parent, size) ==
    [parent |-> parent, kind |-> "file", size |-> size, readable |-> TRUE]

Other(parent, size) ==
    [parent |-> parent, kind |-> "other", size |-> size, readable |-> TRUE]

NoTree == [n \in {} |-> Dir(0, TRUE)]

\* os.scandir(path): the entries directly inside directory p
Entries(t, p) == { c \in DOMAIN t : c # 0 /\ t[c].parent = p }

RECURSIVE get_dir_size(_, _)
RECURSIVE ScanTotal(_, _)
\* the for-loop of get_dir_size over the entries S of one directory
ScanTotal(t, S) ==
    IF S = {} THEN 0
    ELSE LET e == CHOOSE c \in S : TRUE
             here == IF t[e].kind = "file" THEN t[e].size
                     ELSE IF t[e].kind = "dir" THEN get_dir_size(t, e)
                     ELSE 0
         IN  here + ScanTotal(t, S \ {e})

\* get_dir_size with the recursion left out: subdirectories are not entered
get_dir_size_flat(t, p) ==
    IF p \notin DOMAIN t THEN 0
    ELSE IF ~t[p].readable THEN 0
    ELSE ScanTotal(t, { c \in Entries(t, p) : t[c].kind = "file" })

\* get_dir_size(path): 0 for a path that does not exist; a directory that
\* cannot be listed raises PermissionError inside its own call, which is
\* caught there, and the call returns the total so far, 0.
get_dir_size(t, p) ==
    IF p \notin DOMAIN t THEN 0
    ELSE IF ~t[p].readable THEN 0
    ELSE ScanTotal(t, Entries(t, p))

\* os.access(source, os.R_OK)
SourceReadable(t) == 0 \in DOMAIN t /\ t[0].readable

(* The reference walk: bottom-up, from each regular file through its parents. *)

RECURSIVE IsUnder(_, _, _)
IsUnder(t, n, d) ==
    IF n = d THEN TRUE
    ELSE IF n = 0 THEN FALSE
    ELSE IsUnder(t, t[n].parent, d)

RegularFilesUnder(t, d) ==
    { n \in DOMAIN t : t[n].kind = "file" /\ IsUnder(t, n, d) }

RECURSIVE SumSizes(_, _)
SumSizes(t, S) ==
    IF S = {} THEN 0
    ELSE LET n == CHOOSE c \in S : TRUE
         IN  t[n].size + SumSizes(t, S \ {n})

ReferenceTotal(t, d) == SumSizes(t, RegularFilesUnder(t, d))

\* every directory at or below d can be listed
AllReadableUnder(t, d) ==
    \A n \in DOMAIN t : (t[n].kind = "dir" /\ IsUnder(t, n, d)) => t[n].readable

\* The source trees the pipeline is run on.
SampleTrees ==
    { NoTree,
      (0 :> Dir(0, FALSE)),
      (0 :> Dir(0, TRUE)),
      (0 :> Dir(0, TRUE)) @@ (1 :> Dir(0, TRUE)) @@ (2 :> File(1, 2)) }

(* ------------------------------ state --------------------------------- *)

VARIABLES
    name,            \* source.name, the source directory's own name
    tree,            \* the source directory's content
    dry_run,         \* the dry_run argument
    mainThread,      \* whether githubify_safe runs on the main thread
    seven_z_exe,     \* whether find_7z_binary() finds the compressor
    writable,        \* os.access(level, W_OK) of each level of dest's path
    destMissing,     \* trailing components of dest_dir that do not exist
    dest,            \* the names in dest_dir (empty while it does not exist)
    pc,              \* where the process is
    result,          \* how the githubify_safe call ended, "none" before
    exitCode,        \* the code carried by CompressionFailed
    handlerInstalled,\* signal_handler is the process's SIGINT handler
    first_vol,       \* first_vol, the file handed to the verify run
    calls,           \* the compressor invocations so far, by mode
    cleanups,        \* how many times cleanup_partial_files has run
    deleteFailed,    \* some unlink of a cleanup raised OSError
    gitInits,        \* how many times "git init" has been run
    interruptedAt,   \* pc at which a SIGINT arrived, "none" before
    warned,          \* the low disk space warning was printed
    sizeArg,         \* the node get_dir_size was last called on, -1 before
    sizeOut,         \* what that call returned
    dest0,           \* dest before the run
    missing0         \* destMissing before the run

vars ==
    << name, tree, dry_run, mainThread, seven_z_exe, writable, destMissing, dest,
       pc, result, exitCode, handlerInstalled, first_vol, calls, cleanups,
       deleteFailed, gitInits, interruptedAt, warned, sizeArg, sizeOut, dest0,
       missing0 >>

\* what the pipeline never changes
jobVars == << name, tree, dry_run, mainThread, seven_z_exe, writable, dest0, missing0 >>

\* what the size estimator sets
sizeVars == << sizeArg, sizeOut >>

NoFile == <<>>

Init ==
    /\ name \in SourceNames
    /\ tree \in SampleTrees
    /\ dry_run \in BOOLEAN
    /\ mainThread \in BOOLEAN
    /\ seven_z_exe \in BOOLEAN
    /\ writable \in [0 .. MaxMissing -> BOOLEAN]
    /\ destMissing \in 0 .. MaxMissing
    /\ dest \in (IF destMissing = 0 THEN SUBSET Universe(name) ELSE { {} })
    /\ pc = "check_permissions"
    /\ result = "none"
    /\ exitCode = 0
    /\ handlerInstalled = FALSE
    /\ first_vol = NoFile
    /\ calls = <<>>
    /\ cleanups = 0
    /\ deleteFailed = FALSE
    /\ gitInits = 0
    /\ interruptedAt = "none"
    /\ warned = FALSE
    /\ sizeArg = -1
    /\ sizeOut = 0
    /\ dest0 = dest
    /\ missing0 = destMissing

(* ----------------------------- helpers -------------------------------- *)

\* raise GithubifierError(...) or another exception out of githubify_safe
Raise(kind) == pc' = "raised" /\ result' = kind

\* The walk of check_permissions: from level k of the destination path
\* (0 is dest_dir itself) up to the first level that exists; the levels
\* below destMissing do not exist, and the walk stops at the root.
RECURSIVE ExistingAncestor(_, _)
ExistingAncestor(k, missing) ==
    IF k >= missing THEN k
    ELSE IF k = MaxMissing THEN k
    ELSE ExistingAncestor(k + 1, missing)

\* lines 83-95 of check_permissions: os.access(chk_path, os.W_OK)
DestWritable == writable[ExistingAncestor(0, destMissing)]

\* cleanup_partial_files(dest_dir, archive_name_base) on the directory
\* content `files`: every globbed name is unlinked, except those in `failed`,
\* whose unlink raises OSError (caught and printed).
cleanup_partial_files(files, base, failed) ==
    files \ (GlobAll(files, base) \ failed)

\* A call of cleanup_partial_files(dest_dir, archive_name) as part of a step.
Cleanup ==
    \E failed \in SUBSET GlobAll(dest, ArchiveName(name)) :
        /\ dest' = cleanup_partial_files(dest, ArchiveName(name), failed)
        /\ deleteFailed' = (deleteFailed \/ failed # {})
        /\ cleanups' = cleanups + 1

NoCleanup == UNCHANGED << dest, deleteFailed, cleanups >>

(* ------------------------ githubify_safe ------------------------------ *)

\* check_permissions(source, dest_dir), and the raise on its False
CheckPermissions ==
    /\ pc = "check_permissions"
    /\ IF ~SourceReadable(tree) THEN Raise("SourceUnreadable")
       ELSE IF ~DestWritable THEN Raise("DestinationUnwritable")
       ELSE pc' = "prepare" /\ UNCHANGED result
    /\ UNCHANGED << jobVars, sizeVars, destMissing, dest, exitCode,
                    handlerInstalled, first_vol, calls, cleanups, deleteFailed,
                    gitInits, interruptedAt, warned >>

\* ensure_git_init(dest_dir) on the content `files`: "git init" runs when
\* there is no .git; `outcome` is "ok", "failed" (CalledProcessError, a
\* warning only) or "oserror" (git cannot be started: not caught).
ensure_git_init(files, outcome) ==
    IF GitDir \in files THEN files
    ELSE IF outcome = "ok" THEN files \cup { GitDir }
    ELSE files

\* how many times ensure_git_init runs "git init": once when there is no
\* .git and git can be started
git_init_runs(files, outcome) ==
    IF GitDir \notin files /\ outcome # "oserror" THEN 1 ELSE 0

\* the same step without the dry_run test of line 205
PrepareDestinationAlways ==
    /\ pc = "prepare"
    /\ \E outcome \in { "ok", "failed", "oserror" } :
        /\ destMissing' = 0
        /\ dest' = ensure_git_init(dest, outcome)
        /\ gitInits' = gitInits + git_init_runs(dest, outcome)
        /\ IF GitDir \notin dest /\ outcome = "oserror"
           THEN Raise("UnexpectedError")
           ELSE pc' = "collision" /\ UNCHANGED result
    /\ UNCHANGED << jobVars, sizeVars, exitCode, handlerInstalled, first_vol,
                    calls, cleanups, deleteFailed, interruptedAt, warned >>

\* lines 204-209: dest_dir.mkdir(parents=True, exist_ok=True) and
\* ensure_git_init in a live run, a message only in a dry run
PrepareDestination ==
    /\ pc = "prepare"
    /\ IF ~dry_run
       THEN \E outcome \in { "ok", "failed", "oserror" } :
                /\ destMissing' = 0
                /\ dest' = ensure_git_init(dest, outcome)
                /\ gitInits' = gitInits + git_init_runs(dest, outcome)
                /\ IF GitDir \notin dest /\ outcome = "oserror"
                   THEN Raise("UnexpectedError")
                   ELSE pc' = "collision" /\ UNCHANGED result
       ELSE /\ pc' = "collision"
            /\ UNCHANGED << destMissing, dest, gitInits, result >>
    /\ UNCHANGED << jobVars, sizeVars, exitCode, handlerInstalled, first_vol,
                    calls, cleanups, deleteFailed, interruptedAt, warned >>

\* the same step with the existence test of line 212 left out
CollisionCheckSkipped ==
    /\ pc = "collision"
    /\ pc' = "locate"
    /\ UNCHANGED << jobVars, sizeVars, destMissing, dest, result, exitCode,
                    handlerInstalled, first_vol, calls, cleanups, deleteFailed,
                    gitInits, interruptedAt, warned >>

\* lines 211-213: (dest_dir / f"{archive_name}.001").exists()
CollisionCheck ==
    /\ pc = "collision"
    /\ IF destMissing = 0 /\ Vol001(name) \in dest
       THEN Raise("ArchiveAlreadyExists")
       ELSE pc' = "locate" /\ UNCHANGED result
    /\ UNCHANGED << jobVars, sizeVars, destMissing, dest, exitCode,
                    handlerInstalled, first_vol, calls, cleanups, deleteFailed,
                    gitInits, interruptedAt, warned >>

\* lines 215-218: find_7z_binary()
Locate7z ==
    /\ pc = "locate"
    /\ IF ~seven_z_exe THEN Raise("DependencyMissing")
       ELSE pc' = "space" /\ UNCHANGED result
    /\ UNCHANGED << jobVars, sizeVars, destMissing, dest, exitCode,
                    handlerInstalled, first_vol, calls, cleanups, deleteFailed,
                    gitInits, interruptedAt, warned >>

\* lines 220-243: the source size, and the free space of the destination
\* when it exists; `free` is shutil.disk_usage's answer, `tty` is
\* sys.stdin.isatty() and `yes` is the user's answer to the prompt.
SpaceCheck ==
    /\ pc = "space"
    /\ sizeArg' = 0
    /\ sizeOut' = get_dir_size(tree, 0)
    /\ IF destMissing = 0
       THEN \E free \in 0 .. MaxFree, tty \in BOOLEAN, yes \in BOOLEAN :
                /\ warned' = (free < sizeOut')
                /\ IF free < sizeOut' /\ ~dry_run /\ tty /\ ~yes
                   THEN Raise("CancelledByUser")
                   ELSE pc' = "execute" /\ UNCHANGED result
       ELSE pc' = "execute" /\ UNCHANGED << warned, result >>
    /\ UNCHANGED << jobVars, destMissing, dest, exitCode, handlerInstalled,
                    first_vol, calls, cleanups, deleteFailed, gitInits,
                    interruptedAt >>

\* lines 260-267: the dry run prints the command and returns True
DryRunReport ==
    /\ pc = "execute"
    /\ dry_run
    /\ pc' = "returned"
    /\ result' = "Success"
    /\ UNCHANGED << jobVars, sizeVars, destMissing, dest, exitCode,
                    handlerInstalled, first_vol, calls, cleanups, deleteFailed,
                    gitInits, interruptedAt, warned >>

\* the same step with the signal.signal call of line 277 left out
InstallHandlerSkipped ==
    /\ pc = "execute"
    /\ ~dry_run
    /\ handlerInstalled' = FALSE
    /\ pc' = "run7z"
    /\ UNCHANGED << jobVars, sizeVars, destMissing, dest, result, exitCode,
                    first_vol, calls, cleanups, deleteFailed, gitInits,
                    interruptedAt, warned >>

\* lines 269-279: signal.signal(SIGINT, signal_handler); off the main thread
\* it raises ValueError, which is passed over
InstallHandler ==
    /\ pc = "execute"
    /\ ~dry_run
    /\ handlerInstalled' = mainThread
    /\ pc' = "run7z"
    /\ UNCHANGED << jobVars, sizeVars, destMissing, dest, result, exitCode,
                    first_vol, calls, cleanups, deleteFailed, gitInits,
                    interruptedAt, warned >>

\* lines 281-289, the start of subprocess.run(cmd, check=True): the
\* compressor starts in add mode, or cannot be started (OSError), which the
\* `except Exception` branch answers with cleanup and a re-raise
StartCompressor ==
    /\ pc = "run7z"
    /\ \/ /\ calls' = Append(calls, "a")
          /\ pc' = "compressing"
          /\ NoCleanup
          /\ UNCHANGED result
       \/ /\ Cleanup
          /\ Raise("UnexpectedError")
          /\ UNCHANGED calls
    /\ UNCHANGED << jobVars, sizeVars, destMissing, exitCode, handlerInstalled,
                    first_vol, gitInits, interruptedAt, warned >>

\* the external compressor writes one of its output files
CompressorWrite ==
    /\ pc = "compressing"
    /\ \E f \in ArchiveOutputs(name) \ dest : dest' = dest \cup { f }
    /\ UNCHANGED << jobVars, sizeVars, destMissing, pc, result, exitCode,
                    handlerInstalled, first_vol, calls, cleanups, deleteFailed,
                    gitInits, interruptedAt, warned >>

\* lines 283-286: the compressor exits; a non-zero code is
\* CalledProcessError: cleanup, then GithubifierError with the code
CompressorExit ==
    /\ pc = "compressing"
    /\ \E code \in 0 .. MaxExit :
        IF code = 0
        THEN /\ pc' = "select_volume"
             /\ NoCleanup
             /\ UNCHANGED << result, exitCode >>
        ELSE /\ Cleanup
             /\ Raise("CompressionFailed")
             /\ exitCode' = code
    /\ UNCHANGED << jobVars, sizeVars, destMissing, handlerInstalled, first_vol,
                    calls, gitInits, interruptedAt, warned >>

\* lines 294-302: the first volume, else the unsplit file, else the raise
SelectFirstVolume ==
    /\ pc = "select_volume"
    /\ IF Vol001(name) \in dest
       THEN first_vol' = Vol001(name) /\ pc' = "verifying" /\ UNCHANGED result
       ELSE IF ArchiveName(name) \in dest
       THEN first_vol' = ArchiveName(name) /\ pc' = "verifying" /\ UNCHANGED result
       ELSE Raise("ArchiveNotFound") /\ UNCHANGED first_vol
    /\ UNCHANGED << jobVars, sizeVars, destMissing, dest, exitCode,
                    handlerInstalled, calls, cleanups, deleteFailed, gitInits,
                    interruptedAt, warned >>

\* lines 304-315: subprocess.run(verify_cmd, check=True): exit 0 returns
\* True; a non-zero exit is CalledProcessError: cleanup and "Integrity check
\* failed."; a compressor that cannot be started raises OSError, not caught
Verify ==
    /\ pc = "verifying"
    /\ \/ \E code \in 0 .. MaxExit :
            /\ calls' = Append(calls, "t")
            /\ IF code = 0
               THEN pc' = "returned" /\ result' = "Success" /\ NoCleanup
               ELSE Cleanup /\ Raise("IntegrityFailed")
       \/ /\ Raise("UnexpectedError")
          /\ NoCleanup
          /\ UNCHANGED calls
    /\ UNCHANGED << jobVars, sizeVars, destMissing, exitCode, handlerInstalled,
                    first_vol, gitInits, interruptedAt, warned >>

(* ------------------------ around the call ----------------------------- *)

Alive == pc # "exited"

CallEnded == pc \in { "returned", "raised" }

\* lines 270-273: SIGINT with signal_handler installed: cleanup, sys.exit(0)
InterruptHandled ==
    /\ Alive
    /\ mainThread /\ handlerInstalled
    /\ interruptedAt' = pc
    /\ Cleanup
    /\ pc' = "exited"
    /\ UNCHANGED << jobVars, sizeVars, destMissing, result, exitCode,
                    handlerInstalled, first_vol, calls, gitInits, warned >>

\* SIGINT on the main thread with Python's default handler:
\* KeyboardInterrupt, which no `except Exception` catches
InterruptDefault ==
    /\ Alive
    /\ mainThread /\ ~handlerInstalled
    /\ interruptedAt' = pc
    /\ pc' = "exited"
    /\ result' = IF CallEnded THEN result ELSE "KeyboardInterrupt"
    /\ UNCHANGED << jobVars, sizeVars, destMissing, dest, exitCode,
                    handlerInstalled, first_vol, calls, cleanups, deleteFailed,
                    gitInits, warned >>

\* SIGINT while githubify_safe runs on another thread: Python runs signal
\* handlers on the main thread only, and this thread goes on
InterruptElsewhere ==
    /\ Alive
    /\ ~mainThread
    /\ interruptedAt = "none"
    /\ interruptedAt' = pc
    /\ UNCHANGED << jobVars, sizeVars, destMissing, dest, pc, result, exitCode,
                    handlerInstalled, first_vol, calls, cleanups, deleteFailed,
                    gitInits, warned >>

\* run_custom_task, lines 342-349: the call has ended, its error (if any)
\* is printed, and input("Press Enter to exit...") returns
PressEnter ==
    /\ CallEnded
    /\ pc' = "exited"
    /\ UNCHANGED << jobVars, sizeVars, destMissing, dest, result, exitCode,
                    handlerInstalled, first_vol, calls, cleanups, deleteFailed,
                    gitInits, interruptedAt, warned >>

Next ==
    \/ CheckPermissions
    \/ PrepareDestination
    \/ CollisionCheck
    \/ Locate7z
    \/ SpaceCheck
    \/ DryRunReport
    \/ InstallHandler
    \/ StartCompressor
    \/ CompressorWrite
    \/ CompressorExit
    \/ SelectFirstVolume
    \/ Verify
    \/ InterruptHandled
    \/ InterruptDefault
    \/ InterruptElsewhere
    \/ PressEnter

Spec == Init /\ [][Next]_vars

(* --------------- the size estimator on growing trees ------------------ *)

\* the pipeline's own variables, which the size estimator does not touch
pipelineVars ==
    << name, dry_run, mainThread, seven_z_exe, writable, destMissing, dest, pc,
       result, exitCode, handlerInstalled, first_vol, calls, cleanups,
       deleteFailed, gitInits, interruptedAt, warned, dest0, missing0 >>

SizeInit ==
    /\ name = <<"a">>
    /\ tree = NoTree
    /\ dry_run = TRUE
    /\ mainThread = TRUE
    /\ seven_z_exe = TRUE
    /\ writable = [k \in 0 .. MaxMissing |-> TRUE]
    /\ destMissing = 0
    /\ dest = {}
    /\ pc = "measure"
    /\ result = "none"
    /\ exitCode = 0
    /\ handlerInstalled = FALSE
    /\ first_vol = NoFile
    /\ calls = <<>>
    /\ cleanups = 0
    /\ deleteFailed = FALSE
    /\ gitInits = 0
    /\ interruptedAt = "none"
    /\ warned = FALSE
    /\ sizeArg = -1
    /\ sizeOut = 0
    /\ dest0 = {}
    /\ missing0 = 0

\* the directories of the tree
Dirs(t) == { n \in DOMAIN t : t[n].kind = "dir" }

\* the next unused node id
Fresh(t) == Cardinality(DOMAIN t)

\* the file system gains the measured path itself, a directory
MakeRoot ==
    /\ tree = NoTree
    /\ \E r \in BOOLEAN : tree' = (0 :> Dir(0, r))
    /\ sizeArg' = -1 /\ sizeOut' = 0
    /\ UNCHANGED pipelineVars

\* ... a subdirectory, listable or not
MakeDir ==
    /\ tree # NoTree /\ Fresh(tree) <= MaxNodes
    /\ \E d \in Dirs(tree), r \in BOOLEAN :
        tree' = tree @@ (Fresh(tree) :> Dir(d, r))
    /\ sizeArg' = -1 /\ sizeOut' = 0
    /\ UNCHANGED pipelineVars

\* ... a regular file
MakeFile ==
    /\ tree # NoTree /\ Fresh(tree) <= MaxNodes
    /\ \E d \in Dirs(tree), sz \in 0 .. MaxFileSize :
        tree' = tree @@ (Fresh(tree) :> File(d, sz))
    /\ sizeArg' = -1 /\ sizeOut' = 0
    /\ UNCHANGED pipelineVars

\* ... an entry that is neither file nor directory
MakeOther ==
    /\ tree # NoTree /\ Fresh(tree) <= MaxNodes
    /\ \E d \in Dirs(tree) :
        tree' = tree @@ (Fresh(tree) :> Other(d, MaxFileSize))
    /\ sizeArg' = -1 /\ sizeOut' = 0
    /\ UNCHANGED pipelineVars

\* get_dir_size(path) on a directory of the tree, or on a path that does
\* not exist
Measure ==
    /\ \E d \in Nodes :
        /\ d \in DOMAIN tree => tree[d].kind = "dir"
        /\ sizeArg' = d
        /\ sizeOut' = get_dir_size(tree, d)
    /\ UNCHANGED << pipelineVars, tree >>

SizeNext ==
    \/ MakeRoot
    \/ MakeDir
    \/ MakeFile
    \/ MakeOther
    \/ Measure

SizeSpec == SizeInit /\ [][SizeNext]_vars

(* ----------------------------- properties ----------------------------- *)

\* the job passes every validation of githubify_safe
ValidJob ==
    /\ SourceReadable(tree)
    /\ writable[ExistingAncestor(0, missing0)]
    /\ seven_z_exe
    /\ ~(missing0 = 0 /\ Vol001(name) \in dest0)

\* <dest>/<name>.7z.001 exists before the run
Collided == missing0 = 0 /\ Vol001(name) \in dest0

\* the errors raised by the dependency and validation steps
ValidationErrors ==
    { "DependencyMissing", "SourceUnreadable", "DestinationUnwritable",
      "ArchiveAlreadyExists" }

\* the live execution from the handler's registration on
LivePcs == { "run7z", "compressing", "select_volume", "verifying" }

\* C1: in a dry run the destination is never touched: at every point of the
\* run its content set and its existence are what they were before the call,
\* git init has not run and the compressor has not been invoked; and when the
\* call on a valid job has ended, it has returned success.
C1_DryRunCreatesNothing ==
    dry_run =>
        /\ dest = dest0
        /\ destMissing = missing0
        /\ gitInits = 0
        /\ calls = <<>>
        /\ cleanups = 0
        /\ (CallEnded /\ ValidJob) => (pc = "returned" /\ result = "Success")

\* C1 witness: a dry run on a destination that exists, holds files and has too
\* little free space has returned success.
C1_Witness ==
    /\ dry_run /\ pc = "returned" /\ result = "Success"
    /\ warned /\ dest0 # {} /\ missing0 = 0

\* C2 as stated: when <name>.7z.001 exists before the run, the compressor is
\* never invoked, the volume stays, and a call that has ended has raised
\* ArchiveAlreadyExists.
C2_CollisionAsStated ==
    Collided =>
        /\ calls = <<>>
        /\ Vol001(name) \in dest
        /\ CallEnded => (pc = "raised" /\ result = "ArchiveAlreadyExists")

\* C2 amended: when <name>.7z.001 exists before the run (live or dry), the
\* compressor is never invoked, the run never gets past the collision check,
\* the volume stays, and a call that has ended has raised an error:
\* ArchiveAlreadyExists, unless an earlier step raised first, which is the
\* permission check (exactly when the source is unreadable or the destination
\* unwritable) or, in a live run, a git that cannot be started.
C2_CollisionAborts ==
    Collided =>
        /\ calls = <<>>
        /\ cleanups = 0
        /\ Vol001(name) \in dest
        /\ pc \in { "check_permissions", "prepare", "collision", "raised", "exited" }
        /\ CallEnded =>
            /\ pc = "raised"
            /\ ~SourceReadable(tree) => result = "SourceUnreadable"
            /\ (SourceReadable(tree) /\ ~writable[ExistingAncestor(0, missing0)])
                  => result = "DestinationUnwritable"
            /\ (SourceReadable(tree) /\ writable[ExistingAncestor(0, missing0)])
                  => \/ result = "ArchiveAlreadyExists"
                     \/ /\ result = "UnexpectedError"
                        /\ ~dry_run /\ gitInits = 0 /\ GitDir \notin dest0

\* C2 witness: a live run that met the existing first volume has raised
\* ArchiveAlreadyExists.
C2_Witness ==
    /\ Collided /\ ~dry_run
    /\ pc = "raised" /\ result = "ArchiveAlreadyExists"

\* C3: when the call has raised a dependency or validation error, nothing has
\* been written: the destination directory has not been created, git init has
\* not run in it, and its content is what it was before the call.
C3_NoWriteBeforeValidationError ==
    (pc = "raised" /\ result \in ValidationErrors) =>
        /\ destMissing = missing0
        /\ gitInits = 0
        /\ dest = dest0

\* C4: when a live run has ended with CompressionFailed, it carries the
\* compressor's non-zero exit code and the destination holds no file
\* <name>.7z.*.  Stated for the runs in which every unlink of the cleanup
\* succeeded, so that a file left behind is left by the code's own choice of
\* files to delete.
C4_CleanupCompleteness ==
    (CallEnded /\ result = "CompressionFailed" /\ ~deleteFailed) =>
        /\ pc = "raised"
        /\ exitCode # 0
        /\ \A f \in dest : ~IsVolumeOf(f, name)

\* C5: when a live run has ended with IntegrityFailed, cleanup has run and no
\* output of the archive, split or unsplit, is left in the destination
\* (every unlink having succeeded), whichever file the verification targeted.
C5_VerificationGating ==
    (CallEnded /\ result = "IntegrityFailed" /\ ~deleteFailed) =>
        /\ cleanups >= 1
        /\ first_vol \in { Vol001(name), ArchiveName(name) }
        /\ dest \cap ArchiveOutputs(name) = {}

\* C6: once cleanup_partial_files(dest, "<name>.7z") has run with every
\* deletion succeeding, the destination holds neither a volume <name>.7z.NNN
\* nor the unsplit file <name>.7z.  (Every cleanup is the last step that
\* writes to the destination, so the state after it is the state it leaves.)
C6_CleanupRemovesAllForms ==
    (cleanups >= 1 /\ ~deleteFailed) =>
        /\ \A f \in dest : ~IsVolumeOf(f, name)
        /\ ArchiveName(name) \notin dest

\* C7: when a live run has raised an error after the compressor was invoked,
\* cleanup_partial_files has run.
C7_CleanupBeforeError ==
    (pc = "raised" /\ ~dry_run /\ Len(calls) >= 1) => cleanups >= 1

\* C8 as stated: the handler is installed whenever the compressor has been
\* invoked, and after an interrupt received during live execution the process
\* has run cleanup and exited, without verification completing or success
\* being reported.
C8_InterruptAsStated ==
    /\ Len(calls) >= 1 => handlerInstalled
    /\ interruptedAt \in LivePcs =>
        /\ pc = "exited"
        /\ cleanups >= 1
        /\ result # "Success"

\* C8 amended: the same, for a githubify_safe that runs on the main thread
\* (elsewhere the registration is skipped and the run goes on after SIGINT).
C8_InterruptOnMainThread ==
    mainThread =>
        /\ pc \in LivePcs => handlerInstalled
        /\ Len(calls) >= 1 => handlerInstalled
        /\ interruptedAt \in LivePcs =>
            /\ pc = "exited"
            /\ cleanups = 1
            /\ result = "none"
            /\ "t" \notin { calls[i] : i \in 1 .. Len(calls) }

\* C8 witness: an interrupt arrived while the compressor was running, after it
\* had written output, and the process cleaned up and exited.
C8_Witness ==
    /\ mainThread /\ interruptedAt = "compressing" /\ pc = "exited"
    /\ cleanups = 1 /\ calls = << "a" >>

\* C9: get_dir_size of an existing directory whose directories can all be
\* listed is the total size of the regular files under it, as the bottom-up
\* reference walk finds it; of a path that does not exist it is 0.
C9_DirSizeMatchesReference ==
    sizeArg # -1 =>
        /\ (sizeArg \in DOMAIN tree /\ AllReadableUnder(tree, sizeArg))
              => sizeOut = ReferenceTotal(tree, sizeArg)
        /\ sizeArg \notin DOMAIN tree => sizeOut = 0

\* C9 witness: a measured directory with a regular file two levels down and a
\* non-zero total.
C9_Witness ==
    /\ sizeArg = 0 /\ sizeOut > 0 /\ AllReadableUnder(tree, 0)
    /\ \E n \in DOMAIN tree :
        /\ tree[n].kind = "file" /\ tree[n].size > 0
        /\ tree[n].parent # 0

\* C10: after a live call has returned success, the file that was verified is
\* still in the destination, whatever happens later in the process.
C10_VerifiedArchiveKept ==
    (result = "Success" /\ ~dry_run) => first_vol \in dest

====
